---- MODULE Spec2Model ----
(***************************************************************************)
(* Model of 0x02-redis_basic: exercise.py (Cache, count_calls,             *)
(* call_history, replay) and web.py (get_page with count_accesses and      *)
(* cache_result), both talking to the same Redis database.                 *)
(*                                                                         *)
(* Text and byte strings are sequences of one-symbol tokens.  The token    *)
(* "E9" is the character U+00E9, whose UTF-8 encoding is the two bytes     *)
(* "xC3" "xA9".  A uuid4 string, a URL and a fixed key name are one token  *)
(* each.                                                                   *)
(***************************************************************************)
EXTENDS Integers, Sequences, FiniteSets, TLC

VARIABLES db, ttl, pc, local, uuids, obs, hist

vars == <<db, ttl, pc, local, uuids, obs, hist>>

---------------------------------------------------------------------------
(* Bounds of the model. *)

\* store, get_page and Cache() calls in one behaviour
MaxCalls == 3
\* time units that pass in one Tick step
TickStep == 1

\* largest absolute value of an integer payload read back by get_int
MaxInt == 12

\* duration=10 of @cache_result
TTL == 10

Clients == {"c1", "c2"}
Urls == {"u1", "u2"}

---------------------------------------------------------------------------
(* Python values: str, bytes, int, float (in tenths), None, and a raised   *)
(* exception as the outcome of a call.                                     *)

PyNone == [kind |-> "None", s |-> <<>>, n |-> 0]
PyStr(s) == [kind |-> "str", s |-> s, n |-> 0]
PyBytes(s) == [kind |-> "bytes", s |-> s, n |-> 0]
PyInt(n) == [kind |-> "int", s |-> <<>>, n |-> n]
PyFloat(tenths) == [kind |-> "float", s |-> <<>>, n |-> tenths]
PyRaise(name) == [kind |-> "raise", s |-> <<name>>, n |-> 0]

\* bool(x) of a value used as a condition
Truthy(v) ==
    CASE v.kind = "None" -> FALSE
      [] v.kind \in {"str", "bytes"} -> v.s # <<>>
      [] v.kind \in {"int", "float"} -> v.n # 0
      [] OTHER -> TRUE

Digits == <<"0", "1", "2", "3", "4", "5", "6", "7", "8", "9">>
DigitSet == {Digits[i] : i \in 1..10}
DigitVal(ch) == CHOOSE d \in 0..9 : Digits[d + 1] = ch

RECURSIVE NatToDigits(_)
NatToDigits(n) ==
    IF n < 10 THEN <<Digits[n + 1]>>
    ELSE NatToDigits(n \div 10) \o <<Digits[(n % 10) + 1]>>

\* str(n) / repr(n) of an int
IntRepr(n) == IF n < 0 THEN <<"-">> \o NatToDigits(-n) ELSE NatToDigits(n)

\* repr(x) of a float with one decimal, x = tenths / 10
FloatRepr(tenths) ==
    LET a == IF tenths < 0 THEN -tenths ELSE tenths
        body == NatToDigits(a \div 10) \o <<".">> \o NatToDigits(a % 10)
    IN IF tenths < 0 THEN <<"-">> \o body ELSE body

RECURSIVE DigitsToNat(_, _)
DigitsToNat(s, acc) ==
    IF s = <<>> THEN acc
    ELSE DigitsToNat(Tail(s), acc * 10 + DigitVal(Head(s)))

\* int(data) of a bytes object: an optional sign and decimal digits
ParseInt(s) ==
    LET neg == s # <<>> /\ Head(s) = "-"
        ds == IF neg THEN Tail(s) ELSE s
    IN IF ds # <<>> /\ \A i \in 1..Len(ds) : ds[i] \in DigitSet
       THEN PyInt(IF neg THEN -DigitsToNat(ds, 0) ELSE DigitsToNat(ds, 0))
       ELSE PyRaise("ValueError")

RECURSIVE Utf8Encode(_)
Utf8Encode(s) ==
    IF s = <<>> THEN <<>>
    ELSE (IF Head(s) = "E9" THEN <<"xC3", "xA9">> ELSE <<Head(s)>>)
         \o Utf8Encode(Tail(s))

RECURSIVE Utf8Valid(_)
Utf8Valid(b) ==
    IF b = <<>> THEN TRUE
    ELSE IF Head(b) = "xC3"
         THEN Len(b) >= 2 /\ b[2] = "xA9" /\ Utf8Valid(Tail(Tail(b)))
         ELSE Head(b) # "xA9" /\ Utf8Valid(Tail(b))

RECURSIVE Utf8Chars(_)
Utf8Chars(b) ==
    IF b = <<>> THEN <<>>
    ELSE IF Head(b) = "xC3" THEN <<"E9">> \o Utf8Chars(Tail(Tail(b)))
         ELSE <<Head(b)>> \o Utf8Chars(Tail(b))

\* data.decode('utf-8')
Utf8Decode(b) ==
    IF Utf8Valid(b) THEN PyStr(Utf8Chars(b)) ELSE PyRaise("UnicodeDecodeError")

RECURSIVE BytesEscape(_)
BytesEscape(b) ==
    IF b = <<>> THEN <<>>
    ELSE (CASE Head(b) = "xC3" -> <<"\\", "x", "c", "3">>
            [] Head(b) = "xA9" -> <<"\\", "x", "a", "9">>
            [] OTHER -> <<Head(b)>>)
         \o BytesEscape(Tail(b))

\* repr(v)
PyRepr(v) ==
    CASE v.kind = "str" -> <<"'">> \o v.s \o <<"'">>
      [] v.kind = "bytes" -> <<"b", "'">> \o BytesEscape(v.s) \o <<"'">>
      [] v.kind = "int" -> IntRepr(v.n)
      [] v.kind = "float" -> FloatRepr(v.n)
      [] OTHER -> <<"None">>

\* str(v)
PyStrOf(v) == IF v.kind = "str" THEN v.s ELSE PyRepr(v)

\* str(args) of the one-element tuple args = (data,)
StrArgs(data) == <<"(">> \o PyRepr(data) \o <<",", ")">>

---------------------------------------------------------------------------
(* The Redis database shared by redis.Redis() of exercise.py and           *)
(* redis_client of web.py: one keyspace, each key absent ("nil"), a        *)
(* string or a list of strings, and a remaining time to live per key       *)
(* (0 = no expiry).                                                        *)

CounterKey == <<"Cache.store">>
InputKey == CounterKey \o <<":inputs">>
OutputKey == CounterKey \o <<":outputs">>
CacheKey(u) == <<"cache:", u>>
CountKey(u) == <<"count:", u>>
\* (mutant) the identifier generated once, not per call
UuidKeyOnce(i) == <<"uuid-">> \o NatToDigits(1)

\* str(uuid4()): the i-th identifier generated in a behaviour
UuidKey(i) == <<"uuid-">> \o NatToDigits(i)

\* the identifiers of the model: every uuid4 value of a behaviour and one
\* that store never returns
IdKeys == {UuidKey(i) : i \in 1..(MaxCalls + 1)}
\* the identifiers a caller asks for when n were generated: each of them and
\* one not generated (yet)
AskKeys(n) == {UuidKey(i) : i \in 1..(n + 1)}
AllKeys ==
    IdKeys \cup {CounterKey, InputKey, OutputKey}
           \cup {CacheKey(u) : u \in Urls} \cup {CountKey(u) : u \in Urls}

Nil == [t |-> "nil", s |-> <<>>, l |-> <<>>]
RString(s) == [t |-> "string", s |-> s, l |-> <<>>]
RList(l) == [t |-> "list", s |-> <<>>, l |-> l]

\* how redis-py encodes a command argument
RedisEncode(v) ==
    CASE v.kind = "bytes" -> v.s
      [] v.kind = "str" -> Utf8Encode(v.s)
      [] OTHER -> PyRepr(v)

\* GET key, as redis-py returns it
RedisGet(d, k) ==
    CASE d[k].t = "nil" -> PyNone
      [] d[k].t = "string" -> PyBytes(d[k].s)
      [] OTHER -> PyRaise("ResponseError")

\* the integer a counter key holds (an absent key counts as 0)
CounterValue(d, k) == IF d[k].t = "string" THEN ParseInt(d[k].s).n ELSE 0

\* (mutant) SET key 1 in place of INCR key
RedisIncrAsSet(d, k) == [d EXCEPT ![k] = RString(IntRepr(1))]

\* (mutant) DECR key in place of INCR key
RedisIncrAsDecr(d, k) ==
    [d EXCEPT ![k] = RString(IntRepr(CounterValue(d, k) - 1))]

\* INCR key
RedisIncr(d, k) == [d EXCEPT ![k] = RString(IntRepr(CounterValue(d, k) + 1))]

\* (mutant) LPUSH key value in place of RPUSH key value
RedisRPushAsLPush(d, k, b) == [d EXCEPT ![k] = RList(<<b>> \o d[k].l)]

\* RPUSH key value
RedisRPush(d, k, b) == [d EXCEPT ![k] = RList(Append(d[k].l, b))]

\* LRANGE key 0 -1
RedisLRange(d, k) == d[k].l

\* SET key value: the string, and no expiry
RedisSet(d, k, b) == [d EXCEPT ![k] = RString(b)]
RedisSetTtl(e, k) == [e EXCEPT ![k] = 0]

\* SETEX key seconds value
RedisSetex(d, k, b) == [d EXCEPT ![k] = RString(b)]
RedisSetexTtl(e, k, secs) == [e EXCEPT ![k] = secs]

\* FLUSHDB
RedisFlushDb == [k \in AllKeys |-> Nil]
RedisFlushTtl == [k \in AllKeys |-> 0]

\* the server's expiry after `units` time units
Expired(e, k, units) == e[k] > 0 /\ e[k] <= units
RedisExpireDb(d, e, units) ==
    [k \in AllKeys |-> IF Expired(e, k, units) THEN Nil ELSE d[k]]
RedisExpireTtl(e, units) ==
    [k \in AllKeys |-> IF e[k] > units THEN e[k] - units ELSE 0]

---------------------------------------------------------------------------
(* Inputs of the operations. *)

Texts == {<<>>, <<"a", "E9">>}

\* data of store: str, bytes, int and float values
Payloads ==
    {PyStr(s) : s \in Texts}
        \cup {PyBytes(<<"xC3">>), PyInt(-12), PyFloat(15)}

\* payloads that are the decimal text of an integer: store(n), store(str(n))
\* and store(str(n).encode())
IntPayloads ==
    UNION {{PyInt(n), PyStr(IntRepr(n)), PyBytes(IntRepr(n))} :
              n \in (-MaxInt)..MaxInt}

\* response.text of a successful GET
Bodies == Texts

\* fn of Cache.get: None, int, a UTF-8 decoder, a callable that raises
Converters == {"none", "int", "decode", "raising"}

ApplyFn(fn, data) ==
    CASE fn = "int" -> ParseInt(data.s)
      [] fn = "decode" -> Utf8Decode(data.s)
      [] OTHER -> PyRaise("ConverterError")

---------------------------------------------------------------------------
(* State.                                                                  *)
(*   db, ttl  the Redis database                                           *)
(*   pc       where each client stands in the call it is running          *)
(*   local    the running (or last finished) call's arguments, locals and  *)
(*            outcome                                                      *)
(*   uuids    how many values uuid4() has produced                        *)
(*   obs      per call: what an observer of the call has seen              *)
(*   hist     per behaviour: what an observer of the system has seen; ops   *)
(*            and flushes count over the behaviour, the rest (the store    *)
(*            calls returned, the age and hits of each cached page, the    *)
(*            last get_page call per URL) since the last flush             *)

NoFetch == [valid |-> FALSE, absent0 |-> FALSE, responded |-> FALSE,
            gets |-> 0, count0 |-> 0]

InitLocal ==
    [op |-> "none", data |-> PyNone, url |-> "", fn |-> "none", key |-> <<>>,
     cached |-> PyNone, result |-> PyNone, ret |-> PyNone,
     inputs |-> <<>>, outputs |-> <<>>, printed |-> <<>>]

InitObs ==
    [trace |-> <<>>, gets |-> 0, count0 |-> [u \in Urls |-> 0],
     absent0 |-> FALSE, age0 |-> -1, hits0 |-> 0, prev |-> NoFetch,
     fnCalled |-> FALSE, inPos |-> 0, overlap |-> FALSE]

InitHist ==
    [ops |-> 0, flushes |-> 0, ids |-> {}, failed |-> 0, orphans |-> 0,
     calls |-> <<>>, age |-> [u \in Urls |-> -1], hits |-> [u \in Urls |-> 0],
     last |-> [u \in Urls |-> NoFetch]]

\* the state after cache = Cache(): a flushed database
Init ==
    /\ db = RedisFlushDb
    /\ ttl = RedisFlushTtl
    /\ pc = [c \in Clients |-> "idle"]
    /\ local = [c \in Clients |-> InitLocal]
    /\ uuids = 0
    /\ obs = [c \in Clients |-> InitObs]
    /\ hist = InitHist

\* the command an observer of the database sees between two of its states
Observed(d1, d2) ==
    CASE d1[CounterKey] # d2[CounterKey] -> <<"counter">>
      [] d1[InputKey] # d2[InputKey] -> <<"inputs">>
      [] d1[OutputKey] # d2[OutputKey] -> <<"outputs">>
      [] \E k \in IdKeys : d1[k] # d2[k] -> <<"write">>
      [] OTHER -> <<>>

Counts(d) == [u \in Urls |-> CounterValue(d, CountKey(u))]

---------------------------------------------------------------------------
(* Cache.__init__ *)

Construct(c) ==
    /\ pc[c] = "idle"
    /\ hist.ops < MaxCalls
    /\ db' = RedisFlushDb
    /\ ttl' = RedisFlushTtl
    /\ local' = [local EXCEPT ![c] = [InitLocal EXCEPT !.op = "init"]]
    /\ obs' = [obs EXCEPT ![c] = InitObs]
    /\ hist' = [InitHist EXCEPT !.ops = hist.ops + 1,
                                !.flushes = hist.flushes + 1,
                                !.ids = hist.ids]
    /\ UNCHANGED <<pc, uuids>>

---------------------------------------------------------------------------
(* Cache.store under @count_calls and @call_history *)

\* (mutant) the decorators stacked the other way round: call_history's
\* rpush of the input is the first command of a call
StoreCallHistoryFirst(c, data) ==
    /\ pc[c] = "idle"
    /\ hist.ops < MaxCalls
    /\ db' = RedisRPush(db, InputKey, RedisEncode(PyStr(StrArgs(data))))
    /\ pc' = [pc EXCEPT ![c] = "history_in"]
    /\ local' = [local EXCEPT ![c] =
                    [InitLocal EXCEPT !.op = "store", !.data = data]]
    /\ obs' = [obs EXCEPT ![c] =
                    [InitObs EXCEPT !.trace = Observed(db, db')]]
    /\ hist' = [hist EXCEPT !.ops = @ + 1]
    /\ UNCHANGED <<ttl, uuids>>

\* count_calls.wrapper: self._redis.incr(key), then the wrapped method
StoreCall(c, data) ==
    /\ pc[c] = "idle"
    /\ hist.ops < MaxCalls
    /\ db' = RedisIncr(db, CounterKey)
    /\ pc' = [pc EXCEPT ![c] = "history_in"]
    /\ local' = [local EXCEPT ![c] =
                    [InitLocal EXCEPT !.op = "store", !.data = data]]
    /\ obs' = [obs EXCEPT ![c] =
                    [InitObs EXCEPT !.trace = Observed(db, db')]]
    /\ hist' = [hist EXCEPT !.ops = @ + 1]
    /\ UNCHANGED <<ttl, uuids>>

\* the calls between their input append and their output append
AppendWindow == {"store_body", "history_out"}

\* what the observers note when client c appends its input: the command, the
\* position the input landed at, and, for c and for every call that is
\* between its two appends at that moment, that their windows overlap
AppendSeen(c, cmd, pos) ==
    [d \in Clients |->
        IF d = c
        THEN [obs[c] EXCEPT !.trace = @ \o cmd, !.inPos = pos,
                            !.overlap = \E e \in Clients \ {c} :
                                            pc[e] \in AppendWindow]
        ELSE IF pc[d] \in AppendWindow
             THEN [obs[d] EXCEPT !.overlap = TRUE]
             ELSE obs[d]]

\* (mutant) self._redis.rpush(output_key, str(args))
StoreRpushInToOutputs(c) ==
    /\ pc[c] = "history_in"
    /\ db' = RedisRPush(db, OutputKey, RedisEncode(PyStr(StrArgs(local[c].data))))
    /\ pc' = [pc EXCEPT ![c] = "store_body"]
    /\ obs' = AppendSeen(c, Observed(db, db'), Len(RedisLRange(db', InputKey)))
    /\ UNCHANGED <<ttl, local, uuids, hist>>

\* call_history.wrapper: self._redis.rpush(input_key, str(args))
StoreRpushIn(c) ==
    /\ pc[c] = "history_in"
    /\ db' = RedisRPush(db, InputKey, RedisEncode(PyStr(StrArgs(local[c].data))))
    /\ pc' = [pc EXCEPT ![c] = "store_body"]
    /\ obs' = AppendSeen(c, Observed(db, db'), Len(RedisLRange(db', InputKey)))
    /\ UNCHANGED <<ttl, local, uuids, hist>>

\* (mutant) self._redis.set(key, str(data))
StoreSetStr(c) ==
    LET key == UuidKey(uuids + 1) IN
    /\ pc[c] = "store_body"
    /\ db' = RedisSet(db, key, RedisEncode(PyStr(PyStrOf(local[c].data))))
    /\ ttl' = RedisSetTtl(ttl, key)
    /\ uuids' = uuids + 1
    /\ pc' = [pc EXCEPT ![c] = "history_out"]
    /\ local' = [local EXCEPT ![c].key = key, ![c].result = PyStr(key)]
    /\ obs' = [obs EXCEPT ![c].trace = @ \o Observed(db, db')]
    /\ UNCHANGED hist

\* Cache.store: key = str(uuid4()); self._redis.set(key, data)
StoreSet(c) ==
    LET key == UuidKey(uuids + 1) IN
    /\ pc[c] = "store_body"
    /\ db' = RedisSet(db, key, RedisEncode(local[c].data))
    /\ ttl' = RedisSetTtl(ttl, key)
    /\ uuids' = uuids + 1
    /\ pc' = [pc EXCEPT ![c] = "history_out"]
    /\ local' = [local EXCEPT ![c].key = key, ![c].result = PyStr(key)]
    /\ obs' = [obs EXCEPT ![c].trace = @ \o Observed(db, db')]
    /\ UNCHANGED hist

\* what a returning store call of client c leaves on record: its argument,
\* its result, the positions its two appends landed at in database d, and
\* whether another call's appends fell between them
Recorded(c, d) ==
    [data |-> local[c].data, ret |-> local[c].result,
     inPos |-> obs[c].inPos, outPos |-> Len(RedisLRange(d, OutputKey)),
     overlap |-> obs[c].overlap]

\* (mutant) self._redis.rpush(output_key, str(args))
StoreRpushOutArgs(c) ==
    /\ pc[c] = "history_out"
    /\ db' = RedisRPush(db, OutputKey, RedisEncode(PyStr(StrArgs(local[c].data))))
    /\ pc' = [pc EXCEPT ![c] = "idle"]
    /\ local' = [local EXCEPT ![c].ret = local[c].result]
    /\ obs' = [obs EXCEPT ![c].trace = @ \o Observed(db, db')]
    /\ hist' = [hist EXCEPT !.calls = Append(@, Recorded(c, db')),
                            !.ids = @ \cup {local[c].key}]
    /\ UNCHANGED <<ttl, uuids>>

\* (mutant) self._redis.rpush(input_key, str(result))
StoreRpushOutToInputs(c) ==
    /\ pc[c] = "history_out"
    /\ db' = RedisRPush(db, InputKey,
                        RedisEncode(PyStr(PyStrOf(local[c].result))))
    /\ pc' = [pc EXCEPT ![c] = "idle"]
    /\ local' = [local EXCEPT ![c].ret = local[c].result]
    /\ obs' = [obs EXCEPT ![c].trace = @ \o Observed(db, db')]
    /\ hist' = [hist EXCEPT !.calls = Append(@, Recorded(c, db')),
                            !.ids = @ \cup {local[c].key}]
    /\ UNCHANGED <<ttl, uuids>>

\* call_history.wrapper: self._redis.rpush(output_key, str(result)); return
StoreRpushOut(c) ==
    /\ pc[c] = "history_out"
    /\ db' = RedisRPush(db, OutputKey,
                        RedisEncode(PyStr(PyStrOf(local[c].result))))
    /\ pc' = [pc EXCEPT ![c] = "idle"]
    /\ local' = [local EXCEPT ![c].ret = local[c].result]
    /\ obs' = [obs EXCEPT ![c].trace = @ \o Observed(db, db')]
    /\ hist' = [hist EXCEPT !.calls = Append(@, Recorded(c, db')),
                            !.ids = @ \cup {local[c].key}]
    /\ UNCHANGED <<ttl, uuids>>

---------------------------------------------------------------------------
(* Cache.store when the backing store is unavailable: the command the call *)
(* is about to send raises, nothing is written by it, and the exception    *)
(* propagates to the caller through both wrappers (no try/except).         *)

\* self._redis.incr(key) raises: the call ends before any write
StoreCallFails(c, data) ==
    /\ pc[c] = "idle"
    /\ hist.ops < MaxCalls
    /\ local' = [local EXCEPT ![c] =
                    [InitLocal EXCEPT !.op = "store", !.data = data,
                                      !.ret = PyRaise("ConnectionError")]]
    /\ obs' = [obs EXCEPT ![c] = InitObs]
    /\ hist' = [hist EXCEPT !.ops = @ + 1, !.failed = @ + 1]
    /\ UNCHANGED <<db, ttl, pc, uuids>>

\* the rpush of the input, the set or the rpush of the output raises; a set
\* that raises does so after key = str(uuid4()) was evaluated
StoreStepFails(c) ==
    /\ pc[c] \in {"history_in", "store_body", "history_out"}
    /\ pc' = [pc EXCEPT ![c] = "idle"]
    /\ local' = [local EXCEPT ![c].ret = PyRaise("ConnectionError")]
    /\ uuids' = IF pc[c] = "store_body" THEN uuids + 1 ELSE uuids
    /\ hist' = [hist EXCEPT !.failed = @ + 1,
                            !.orphans = IF pc[c] = "history_in" THEN @ ELSE @ + 1]
    /\ UNCHANGED <<db, ttl, obs>>

---------------------------------------------------------------------------
(* Cache.get, Cache.get_int, Cache.get_str: one GET and a conversion *)

\* (mutant) fn applied before the test for None
CacheGetEager(d, k, fn) ==
    LET data == RedisGet(d, k) IN
    IF fn # "none"
    THEN [ret |-> IF data.kind = "None" THEN PyRaise("TypeError")
                  ELSE ApplyFn(fn, data),
          fnCalled |-> TRUE]
    ELSE [ret |-> data, fnCalled |-> FALSE]

\* Cache.get(key, fn): the value returned and whether fn was invoked
CacheGet(d, k, fn) ==
    LET data == RedisGet(d, k) IN
    IF data.kind = "None" THEN [ret |-> PyNone, fnCalled |-> FALSE]
    ELSE IF fn # "none" THEN [ret |-> ApplyFn(fn, data), fnCalled |-> TRUE]
    ELSE [ret |-> data, fnCalled |-> FALSE]

\* (mutant) int(data) or None
CacheGetIntOrNone(d, k) ==
    LET data == RedisGet(d, k)
        v == IF data.kind = "None" THEN PyNone ELSE ParseInt(data.s)
    IN IF Truthy(v) THEN v ELSE PyNone

\* Cache.get_int(key): int(data) if data else None
CacheGetInt(d, k) ==
    LET data == RedisGet(d, k) IN
    IF Truthy(data) THEN ParseInt(data.s) ELSE PyNone

\* Cache.get_str(key): data.decode('utf-8') if data else None
CacheGetStr(d, k) ==
    LET data == RedisGet(d, k) IN
    IF Truthy(data) THEN Utf8Decode(data.s) ELSE PyNone

Get(c, k, fn) ==
    LET r == CacheGet(db, k, fn) IN
    /\ pc[c] = "idle"
    /\ local' = [local EXCEPT ![c] =
                    [InitLocal EXCEPT !.op = "get", !.key = k, !.fn = fn,
                                      !.ret = r.ret]]
    /\ obs' = [obs EXCEPT ![c] =
                    [InitObs EXCEPT !.absent0 = (db[k].t = "nil"),
                                    !.fnCalled = r.fnCalled]]
    /\ UNCHANGED <<db, ttl, pc, uuids, hist>>

GetInt(c, k) ==
    /\ pc[c] = "idle"
    /\ local' = [local EXCEPT ![c] =
                    [InitLocal EXCEPT !.op = "get_int", !.key = k,
                                      !.ret = CacheGetInt(db, k)]]
    /\ obs' = [obs EXCEPT ![c] =
                    [InitObs EXCEPT !.absent0 = (db[k].t = "nil")]]
    /\ UNCHANGED <<db, ttl, pc, uuids, hist>>

\* (mutant) get_str decorated with @count_calls
GetStrCounted(c, k) ==
    /\ pc[c] = "idle"
    /\ db' = RedisIncr(db, CounterKey)
    /\ local' = [local EXCEPT ![c] =
                    [InitLocal EXCEPT !.op = "get_str", !.key = k,
                                      !.ret = CacheGetStr(db, k)]]
    /\ obs' = [obs EXCEPT ![c] =
                    [InitObs EXCEPT !.absent0 = (db[k].t = "nil")]]
    /\ UNCHANGED <<ttl, pc, uuids, hist>>

\* Cache.get_str(key) called by client c
GetStr(c, k) ==
    /\ pc[c] = "idle"
    /\ local' = [local EXCEPT ![c] =
                    [InitLocal EXCEPT !.op = "get_str", !.key = k,
                                      !.ret = CacheGetStr(db, k)]]
    /\ obs' = [obs EXCEPT ![c] =
                    [InitObs EXCEPT !.absent0 = (db[k].t = "nil")]]
    /\ UNCHANGED <<db, ttl, pc, uuids, hist>>

---------------------------------------------------------------------------
(* replay(Cache.store) *)

\* inputs = r.lrange(input_key, 0, -1)
ReplayInputs(c) ==
    /\ pc[c] = "idle"
    /\ pc' = [pc EXCEPT ![c] = "replay_out"]
    /\ local' = [local EXCEPT ![c] =
                    [InitLocal EXCEPT !.op = "replay",
                                      !.inputs = RedisLRange(db, InputKey)]]
    /\ obs' = [obs EXCEPT ![c] = InitObs]
    /\ UNCHANGED <<db, ttl, uuids, hist>>

\* zip(inputs, outputs)
Zip(a, b) ==
    [i \in 1..(IF Len(a) < Len(b) THEN Len(a) ELSE Len(b)) |-> <<a[i], b[i]>>]

\* the header line and one line per pair of zip(inputs, outputs)
ReplayLines(inputs, outputs) ==
    LET z == Zip(inputs, outputs) IN
    <<CounterKey \o <<" was called ">> \o IntRepr(Len(inputs)) \o <<" times:">>>>
    \o [i \in 1..Len(z) |->
          CounterKey \o <<"(*">> \o Utf8Decode(z[i][1]).s \o <<") -> ">>
                     \o Utf8Decode(z[i][2]).s]

\* (mutant) the outputs are read by popping them off the list
ReplayOutputsPops(c) ==
    LET outputs == RedisLRange(db, OutputKey) IN
    /\ pc[c] = "replay_out"
    /\ pc' = [pc EXCEPT ![c] = "idle"]
    /\ local' = [local EXCEPT ![c].outputs = outputs,
                              ![c].printed = ReplayLines(local[c].inputs, outputs)]
    /\ db' = [db EXCEPT ![OutputKey] = Nil]
    /\ UNCHANGED <<ttl, uuids, obs, hist>>

\* outputs = r.lrange(output_key, 0, -1), then the prints
ReplayOutputs(c) ==
    LET outputs == RedisLRange(db, OutputKey) IN
    /\ pc[c] = "replay_out"
    /\ pc' = [pc EXCEPT ![c] = "idle"]
    /\ local' = [local EXCEPT ![c].outputs = outputs,
                              ![c].printed = ReplayLines(local[c].inputs, outputs)]
    /\ UNCHANGED <<db, ttl, uuids, obs, hist>>

---------------------------------------------------------------------------
(* get_page under @count_accesses and @cache_result(duration=10) *)

\* what the finished call leaves for the observer of the next one
Fetched(o, u, responded) ==
    [valid |-> TRUE, absent0 |-> o.absent0, responded |-> responded,
     gets |-> o.gets, count0 |-> o.count0[u]]

\* (mutant) count_accesses below cache_result: a call that finds the page
\* cached is not counted
GpCallCountsMisses(c, u) ==
    /\ pc[c] = "idle"
    /\ hist.ops < MaxCalls
    /\ db' = IF Truthy(RedisGet(db, CacheKey(u))) THEN db
             ELSE RedisIncr(db, CountKey(u))
    /\ pc' = [pc EXCEPT ![c] = "cache_get"]
    /\ local' = [local EXCEPT ![c] =
                    [InitLocal EXCEPT !.op = "get_page", !.url = u]]
    /\ obs' = [obs EXCEPT ![c] =
                    [InitObs EXCEPT !.count0 = Counts(db),
                                    !.absent0 = (db[CacheKey(u)].t = "nil"),
                                    !.prev = hist.last[u]]]
    /\ hist' = [hist EXCEPT !.ops = @ + 1]
    /\ UNCHANGED <<ttl, uuids>>

\* count_accesses.wrapper: redis_client.incr(count_key), then func(url)
GpCall(c, u) ==
    /\ pc[c] = "idle"
    /\ hist.ops < MaxCalls
    /\ db' = RedisIncr(db, CountKey(u))
    /\ pc' = [pc EXCEPT ![c] = "cache_get"]
    /\ local' = [local EXCEPT ![c] =
                    [InitLocal EXCEPT !.op = "get_page", !.url = u]]
    /\ obs' = [obs EXCEPT ![c] =
                    [InitObs EXCEPT !.count0 = Counts(db),
                                    !.absent0 = (db[CacheKey(u)].t = "nil"),
                                    !.prev = hist.last[u]]]
    /\ hist' = [hist EXCEPT !.ops = @ + 1]
    /\ UNCHANGED <<ttl, uuids>>

\* (mutant) a hit renews the entry's time to live
GpLookupRenews(c) ==
    LET u == local[c].url
        cached == RedisGet(db, CacheKey(u))
        o == [obs[c] EXCEPT !.age0 = hist.age[u], !.hits0 = hist.hits[u]]
    IN
    /\ pc[c] = "cache_get"
    /\ IF Truthy(cached)
       THEN /\ pc' = [pc EXCEPT ![c] = "idle"]
            /\ local' = [local EXCEPT ![c].cached = cached,
                                      ![c].ret = Utf8Decode(cached.s)]
            /\ hist' = [hist EXCEPT !.hits[u] = @ + 1,
                                    !.last[u] = Fetched(o, u, FALSE)]
            /\ ttl' = RedisSetexTtl(ttl, CacheKey(u), TTL)
       ELSE /\ pc' = [pc EXCEPT ![c] = "http_get"]
            /\ local' = [local EXCEPT ![c].cached = cached]
            /\ hist' = hist
            /\ ttl' = ttl
    /\ obs' = [obs EXCEPT ![c] = o]
    /\ UNCHANGED <<db, uuids>>

\* cache_result wrapper: cached_result = redis_client.get(cache_key);
\* if cached_result: return cached_result.decode('utf-8')
GpLookup(c) ==
    LET u == local[c].url
        cached == RedisGet(db, CacheKey(u))
        o == [obs[c] EXCEPT !.age0 = hist.age[u], !.hits0 = hist.hits[u]]
    IN
    /\ pc[c] = "cache_get"
    /\ IF Truthy(cached)
       THEN /\ pc' = [pc EXCEPT ![c] = "idle"]
            /\ local' = [local EXCEPT ![c].cached = cached,
                                      ![c].ret = Utf8Decode(cached.s)]
            /\ hist' = [hist EXCEPT !.hits[u] = @ + 1,
                                    !.last[u] = Fetched(o, u, FALSE)]
       ELSE /\ pc' = [pc EXCEPT ![c] = "http_get"]
            /\ local' = [local EXCEPT ![c].cached = cached]
            /\ hist' = hist
    /\ obs' = [obs EXCEPT ![c] = o]
    /\ UNCHANGED <<db, ttl, uuids>>

\* get_page: response = requests.get(url); return response.text
\* (ok = FALSE: requests.get raises)
GpHttp(c, ok, body) ==
    LET u == local[c].url
        o == [obs[c] EXCEPT !.gets = @ + 1]
    IN
    /\ pc[c] = "http_get"
    /\ IF ok
       THEN /\ pc' = [pc EXCEPT ![c] = "cache_setex"]
            /\ local' = [local EXCEPT ![c].result = PyStr(body)]
            /\ hist' = hist
       ELSE /\ pc' = [pc EXCEPT ![c] = "idle"]
            /\ local' = [local EXCEPT ![c].ret = PyRaise("RequestException")]
            /\ hist' = [hist EXCEPT !.last[u] = Fetched(o, u, FALSE)]
    /\ obs' = [obs EXCEPT ![c] = o]
    /\ UNCHANGED <<db, ttl, uuids>>

\* cache_result wrapper: redis_client.setex(cache_key, duration, result);
\* return result
GpSetex(c) ==
    LET u == local[c].url IN
    /\ pc[c] = "cache_setex"
    /\ db' = RedisSetex(db, CacheKey(u), RedisEncode(local[c].result))
    /\ ttl' = RedisSetexTtl(ttl, CacheKey(u), TTL)
    /\ pc' = [pc EXCEPT ![c] = "idle"]
    /\ local' = [local EXCEPT ![c].ret = local[c].result]
    /\ hist' = [hist EXCEPT !.age[u] = 0, !.hits[u] = 0,
                            !.last[u] = Fetched(obs[c], u, TRUE)]
    /\ UNCHANGED <<uuids, obs>>

---------------------------------------------------------------------------
(* Time passes: the server expires the keys whose time to live ran out. *)

Aged(a) == IF a < 0 THEN a ELSE IF a + TickStep >= TTL THEN TTL ELSE a + TickStep

Tick ==
    /\ db' = RedisExpireDb(db, ttl, TickStep)
    /\ ttl' = RedisExpireTtl(ttl, TickStep)
    /\ hist' = [hist EXCEPT !.age = [u \in Urls |-> Aged(hist.age[u])]]
    /\ UNCHANGED <<pc, local, uuids, obs>>

---------------------------------------------------------------------------
(* The single-threaded program of the specification: one client, one call *)
(* at a time.                                                              *)

Step(c) ==
    \/ Construct(c)
    \/ \E data \in Payloads : StoreCall(c, data)
    \/ StoreRpushIn(c)
    \/ StoreSet(c)
    \/ StoreRpushOut(c)
    \/ \E k \in AskKeys(uuids), fn \in Converters : Get(c, k, fn)
    \/ \E k \in AskKeys(uuids) : GetInt(c, k)
    \/ \E k \in AskKeys(uuids) : GetStr(c, k)
    \/ ReplayInputs(c)
    \/ ReplayOutputs(c)
    \/ \E u \in Urls : GpCall(c, u)
    \/ GpLookup(c)
    \/ \E ok \in BOOLEAN, body \in Bodies : GpHttp(c, ok, body)
    \/ GpSetex(c)

Next == Step("c1") \/ Tick

Spec == Init /\ [][Next]_vars

---------------------------------------------------------------------------
(* get_int read back: one store of the decimal text of an integer, then    *)
(* get_int on the identifiers.                                             *)

IntStore(c, data) == uuids = 0 /\ StoreCall(c, data)

IntNext ==
    \/ \E data \in IntPayloads : IntStore("c1", data)
    \/ StoreRpushIn("c1")
    \/ StoreSet("c1")
    \/ StoreRpushOut("c1")
    \/ \E k \in AskKeys(uuids) : GetInt("c1", k)

SpecInt == Init /\ [][IntNext]_vars

---------------------------------------------------------------------------
(* The Value Cache run sequentially against a backing store that may be    *)
(* unavailable at any command of a store call.                             *)

FailStep(c) ==
    \/ Construct(c)
    \/ \E data \in Payloads : StoreCall(c, data)
    \/ \E data \in Payloads : StoreCallFails(c, data)
    \/ StoreRpushIn(c)
    \/ StoreSet(c)
    \/ StoreRpushOut(c)
    \/ StoreStepFails(c)
    \/ ReplayInputs(c)
    \/ ReplayOutputs(c)

FailNext == FailStep("c1")

SpecFail == Init /\ [][FailNext]_vars

---------------------------------------------------------------------------
(* Two clients of the same backing store whose Cache.store calls interleave *)
(* command by command; each Redis command is atomic.                        *)

ConcStep(c) ==
    \/ \E data \in Payloads : StoreCall(c, data)
    \/ StoreRpushIn(c)
    \/ StoreSet(c)
    \/ StoreRpushOut(c)

ConcNext == \E c \in Clients : ConcStep(c)

SpecConc == Init /\ [][ConcNext]_vars

---------------------------------------------------------------------------
(* Properties *)

StorePcs == {"history_in", "store_body", "history_out"}
NoStoreRunning == \A c \in Clients : pc[c] \notin StorePcs
StoreCounter == CounterValue(db, CounterKey)
Returned(c, op) == pc[c] = "idle" /\ local[c].op = op

\* the step is a step of client c (a step of an operation c is running)
Moved(c) == pc'[c] # pc[c] \/ local'[c] # local[c] \/ obs'[c] # obs[c]

\* C1: two consecutive get_page(url) calls within the TTL window, the first
\* one finding no cache entry and getting an HTTP response (of any body, the
\* empty one included), issue one HTTP GET in total and raise count:<url>
\* by 2.
C1_TwoCallsOneGet ==
    \A c \in Clients :
        (/\ Returned(c, "get_page")
         /\ obs[c].prev.valid /\ obs[c].prev.absent0 /\ obs[c].prev.responded
         /\ obs[c].age0 \in 0..(TTL - 1))
        => /\ obs[c].prev.gets + obs[c].gets = 1
           /\ CounterValue(db, CountKey(local[c].url)) = obs[c].prev.count0 + 2

\* C2: when N store calls have returned since the Cache was constructed (and
\* none is running), Cache.store:inputs and Cache.store:outputs have length
\* N, outputs[i] is the serialized identifier the i-th call returned and
\* inputs[i] that call's serialized arguments.
C2_HistoryMatchesCalls ==
    NoStoreRunning =>
        LET ins == RedisLRange(db, InputKey)
            outs == RedisLRange(db, OutputKey)
            N == Len(hist.calls)
        IN /\ Len(ins) = N
           /\ Len(outs) = N
           /\ \A i \in 1..N :
                /\ outs[i] = Utf8Encode(hist.calls[i].ret.s)
                /\ ins[i] = Utf8Encode(StrArgs(hist.calls[i].data))

C2_Witness ==
    /\ NoStoreRunning
    /\ Len(hist.calls) >= 2
    /\ hist.calls[1].data # hist.calls[2].data

\* C3: the counter Cache.store equals the number of store calls made since
\* the Cache was constructed: each call, returned or running, has incremented
\* it once.
C3_CounterEqualsCalls ==
    StoreCounter = Len(hist.calls) + Cardinality({c \in Clients : pc[c] \in StorePcs})

C3_Witness == NoStoreRunning /\ Len(hist.calls) >= 2 /\ StoreCounter >= 2

\* C4: get(id) with no converter returns the payload store(payload) wrote
\* under id, in the byte representation of the store, whatever store, get and
\* get_page calls came between.
C4_GetReturnsStored ==
    \A c \in Clients :
        (Returned(c, "get") /\ local[c].fn = "none") =>
            \A i \in 1..Len(hist.calls) :
                hist.calls[i].ret = PyStr(local[c].key) =>
                    local[c].ret = PyBytes(RedisEncode(hist.calls[i].data))

C4_Witness ==
    /\ Returned("c1", "get") /\ local["c1"].fn = "none"
    /\ Len(hist.calls) >= 2
    /\ hist.calls[1].ret = PyStr(local["c1"].key)
    /\ hist.calls[1].data.kind = "float"
    /\ \E u \in Urls : hist.age[u] >= 0

\* C5 as claimed: in a store call the input is appended, then the counter is
\* incremented, then the payload is written, then the output is appended.
C5_InputsBeforeCounter ==
    \A c \in Clients :
        Returned(c, "store") =>
            obs[c].trace = <<"inputs", "counter", "write", "outputs">>

\* C5 as amended: in a store call the counter is incremented, then the input
\* is appended, then the payload is written, then the output is appended.
C5_CounterBeforeInputs ==
    \A c \in Clients :
        local[c].op = "store" =>
            obs[c].trace =
                SubSeq(<<"counter", "inputs", "write", "outputs">>, 1,
                       CASE pc[c] = "history_in" -> 1
                         [] pc[c] = "store_body" -> 2
                         [] pc[c] = "history_out" -> 3
                         [] OTHER -> 4)

C5_Witness == Returned("c1", "store") /\ Len(obs["c1"].trace) = 4

\* C6 as claimed: no step of the system decreases the counter Cache.store.
C6_CounterNeverDecreases ==
    [][CounterValue(db', CounterKey) >= CounterValue(db, CounterKey)]_vars

\* C6 as amended: a step decreases the counter Cache.store only if it is the
\* construction of a Cache, whose flush of the database resets it to 0.
C6_CounterDecreasesOnlyByFlush ==
    [][IF hist'.flushes = hist.flushes
       THEN CounterValue(db', CounterKey) >= CounterValue(db, CounterKey)
       ELSE CounterValue(db', CounterKey) = 0]_vars

C6_Witness == hist.flushes >= 1 /\ StoreCounter >= 1

\* C7: a get_page(url) call raises count:<url> by 1 and leaves the counter of
\* every other URL as it was, whatever the state of the cache entry and the
\* outcome of the call.
C7_OneCountPerCall ==
    \A c \in Clients :
        local[c].op = "get_page" =>
            \A u \in Urls :
                CounterValue(db, CountKey(u)) =
                    obs[c].count0[u] + (IF u = local[c].url THEN 1 ELSE 0)

C7_Witness ==
    /\ Returned("c1", "get_page")
    /\ local["c1"].ret.kind = "raise"
    /\ obs["c1"].count0[local["c1"].url] >= 1
    /\ \E u \in Urls \ {local["c1"].url} : obs["c1"].count0[u] >= 1

\* C8: a get_page(url) call whose cache lookup comes TTL or more time units
\* after the insertion of the entry issues an HTTP GET, whatever hits came
\* between.
C8_ExpiredEntryRefetched ==
    \A c \in Clients :
        (Returned(c, "get_page") /\ obs[c].age0 >= TTL) => obs[c].gets = 1

C8_Witness ==
    /\ Returned("c1", "get_page")
    /\ obs["c1"].age0 >= TTL
    /\ obs["c1"].hits0 >= 1
    /\ obs["c1"].gets = 1

\* C9: get on an identifier that holds no payload returns None, with or
\* without a converter, and does not invoke the converter.
C9_AbsentGivesNone ==
    \A c \in Clients :
        (Returned(c, "get") /\ obs[c].absent0) =>
            local[c].ret = PyNone /\ ~obs[c].fnCalled

C9_Witness ==
    /\ Returned("c1", "get") /\ obs["c1"].absent0
    /\ local["c1"].fn = "raising"
    /\ local["c1"].ret = PyNone
    /\ uuids >= 1

\* C10: for every identifier get_str(id) returns what get(id, decode) returns,
\* and returns None only when no payload is stored under id.
C10_GetStrIsGetDecode ==
    \A k \in IdKeys :
        /\ CacheGetStr(db, k) = CacheGet(db, k, "decode").ret
        /\ CacheGetStr(db, k) = PyNone => db[k] = Nil

\* C11: get_int on an identifier whose payload is the decimal text of an
\* integer n (0 and negative n included) returns n; get_int on an identifier
\* with no payload returns None.
C11_GetIntReadsBack ==
    \A c \in Clients :
        Returned(c, "get_int") =>
            /\ obs[c].absent0 => local[c].ret = PyNone
            /\ \A i \in 1..Len(hist.calls) :
                 hist.calls[i].ret = PyStr(local[c].key) =>
                    \A n \in (-MaxInt)..MaxInt :
                        hist.calls[i].data \in
                            {PyInt(n), PyStr(IntRepr(n)), PyBytes(IntRepr(n))}
                        => local[c].ret = PyInt(n)

C11_Witness ==
    /\ Returned("c1", "get_int")
    /\ Len(hist.calls) = 1
    /\ hist.calls[1].ret = PyStr(local["c1"].key)
    /\ hist.calls[1].data = PyStr(IntRepr(-MaxInt))
    /\ local["c1"].ret = PyInt(-MaxInt)

\* C12: replay is read-only: none of its steps changes the call counter,
\* the history lists, a stored payload, a cached page or an access counter.
C12_ReplayReadOnly ==
    [][\A c \in Clients :
          (Moved(c) /\ local'[c].op = "replay") => (db' = db /\ ttl' = ttl)]_vars

C12_Witness ==
    /\ Returned("c1", "replay")
    /\ Len(local["c1"].printed) >= 2
    /\ \E k \in IdKeys : db[k] # Nil
    /\ \E u \in Urls : db[CacheKey(u)] # Nil /\ db[CountKey(u)] # Nil

ValueOps == {"init", "store", "get", "get_int", "get_str", "replay"}

ValueKeys == {CounterKey, InputKey, OutputKey} \cup IdKeys

WebKeys == {CacheKey(u) : u \in Urls} \cup {CountKey(u) : u \in Urls}

\* the step belongs to a Value Cache operation (Cache(), store, a read or
\* replay) of client c
ValueStep(c) ==
    /\ local'[c].op \in ValueOps
    /\ Moved(c) \/ hist'.flushes # hist.flushes

\* C13: the Value Cache and get_page share no state: no step of a Value
\* Cache operation changes a cache:<url> or count:<url> entry, and no step
\* of get_page changes the call counter, a history list or a stored payload.
C13_NoSharedState ==
    [][\A c \in Clients :
          /\ ValueStep(c) =>
                \A k \in WebKeys : db'[k] = db[k] /\ ttl'[k] = ttl[k]
          /\ (Moved(c) /\ local'[c].op = "get_page") =>
                \A k \in ValueKeys : db'[k] = db[k] /\ ttl'[k] = ttl[k]]_vars

\* C14: a stored value is immutable: store writes under an identifier that
\* no earlier store returned and that held no payload, and no later step of
\* store, get, get_int, get_str, replay or get_page changes what is held
\* under an identifier that holds a payload or was returned.
C14_StoredValueImmutable ==
    [][/\ \A c \in Clients :
            (pc[c] = "store_body" /\ pc'[c] = "history_out") =>
                (local'[c].key \notin hist.ids /\ db[local'[c].key] = Nil)
       /\ \A k \in IdKeys :
            (hist'.flushes = hist.flushes /\ (db[k] # Nil \/ k \in hist.ids))
                => db'[k] = db[k]]_vars

C14_Witness ==
    /\ Cardinality(hist.ids) >= 2
    /\ \A k \in hist.ids : db[k] # Nil
    /\ \E u \in Urls : db[CountKey(u)] # Nil
    /\ Returned("c1", "get_page")

\* C15 (as stated): whenever no store call is in progress, whether the
\* calls returned or surfaced a backing-store failure, the inputs list and
\* the outputs list have the same length.
C15_ListsSameLength ==
    NoStoreRunning =>
        Len(RedisLRange(db, InputKey)) = Len(RedisLRange(db, OutputKey))

\* C15 (amended): whenever no store call is in progress, the inputs list is
\* longer than the outputs list by the number of store calls since the last
\* Cache() that a failure aborted after their input was appended, and the
\* outputs list has one entry per returned call.
C15_ListsDifferByAborted ==
    NoStoreRunning =>
        /\ Len(RedisLRange(db, InputKey))
              = Len(RedisLRange(db, OutputKey)) + hist.orphans
        /\ Len(RedisLRange(db, OutputKey)) = Len(hist.calls)

C15_Witness ==
    /\ NoStoreRunning
    /\ hist.orphans >= 1
    /\ Len(hist.calls) >= 1
    /\ hist.failed > hist.orphans

\* C16: when the HTTP GET of a get_page(url) call fails, the failure reaches
\* the caller, the call made no second GET, and the entry cache:<url> is
\* absent afterwards, so that the next get_page(url) is a miss again.
C16_FailedGetLeavesNoEntry ==
    \A c \in Clients :
        (Returned(c, "get_page") /\ obs[c].gets >= 1
                                 /\ local[c].result = PyNone) =>
            /\ local[c].ret = PyRaise("RequestException")
            /\ obs[c].gets = 1
            /\ db[CacheKey(local[c].url)] = Nil
            /\ ~Truthy(RedisGet(db, CacheKey(local[c].url)))

\* C17: in every reachable state replay prints one call line per recorded
\* call: the number of call lines equals the call count of the header line,
\* and the i-th call line pairs inputs[i] with outputs[i].
C17_ReplayLinePerCall ==
    \A c \in Clients :
        Returned(c, "replay") =>
            LET p == local[c].printed
                n == Len(p) - 1
            IN /\ p[1] = CounterKey \o <<" was called ">> \o IntRepr(n)
                                    \o <<" times:">>
               /\ n = Len(RedisLRange(db, InputKey))
               /\ \A i \in 1..n :
                     p[i + 1] = CounterKey \o <<"(*">>
                                  \o Utf8Decode(RedisLRange(db, InputKey)[i]).s
                                  \o <<") -> ">>
                                  \o Utf8Decode(RedisLRange(db, OutputKey)[i]).s

\* C18: with a backing store that may fail at any command of a store call,
\* in every state, at and between the steps of a call, the outputs list is
\* no longer than the inputs list, which is no longer than the counter
\* value; while no call has failed each of the two differences is at most 1.
C18_OutputsInputsCounter ==
    LET ins == Len(RedisLRange(db, InputKey))
        outs == Len(RedisLRange(db, OutputKey))
    IN /\ outs <= ins
       /\ ins <= StoreCounter
       /\ hist.failed = 0 => (ins - outs <= 1 /\ StoreCounter - ins <= 1)

C18_Witness ==
    /\ hist.failed >= 1
    /\ pc["c1"] = "store_body"
    /\ Len(RedisLRange(db, InputKey)) - Len(RedisLRange(db, OutputKey)) = 2
    /\ StoreCounter = Len(RedisLRange(db, InputKey))

\* the entries of the two lists at the positions a returned call appended
\* at are the serialized argument and the serialized result of that call
InPlace(k) ==
    /\ k.inPos \in 1..Len(RedisLRange(db, InputKey))
    /\ k.outPos \in 1..Len(RedisLRange(db, OutputKey))
    /\ RedisLRange(db, InputKey)[k.inPos] = RedisEncode(PyStr(StrArgs(k.data)))
    /\ RedisLRange(db, OutputKey)[k.outPos] = RedisEncode(PyStr(PyStrOf(k.ret)))

\* C19 (as stated): with two clients whose store calls interleave, once all
\* calls have returned, outputs[i] is the result of the same call whose
\* argument is inputs[i], for every position i.
C19_PairedByPosition ==
    NoStoreRunning =>
        \A j \in 1..Len(hist.calls) :
            InPlace(hist.calls[j]) /\ hist.calls[j].inPos = hist.calls[j].outPos

\* C19 (amended): once all calls have returned, both lists hold one entry
\* per call, the argument and the result of each call stand at the positions
\* its own appends landed at, and the two positions are the same for every
\* call that had no other call's input append between its own two appends
\* and did not append its input between another call's two appends.
C19_PairedUnlessOverlapped ==
    NoStoreRunning =>
        /\ Len(RedisLRange(db, InputKey)) = Len(hist.calls)
        /\ Len(RedisLRange(db, OutputKey)) = Len(hist.calls)
        /\ \A j \in 1..Len(hist.calls) :
              /\ InPlace(hist.calls[j])
              /\ hist.calls[j].outPos = j
              /\ ~hist.calls[j].overlap =>
                    hist.calls[j].inPos = hist.calls[j].outPos

C19_Witness ==
    /\ NoStoreRunning
    /\ Len(hist.calls) = 3
    /\ \E j \in 1..3 : hist.calls[j].overlap
                          /\ hist.calls[j].inPos # hist.calls[j].outPos
    /\ \E j \in 1..3 : ~hist.calls[j].overlap

ReadOps == {"get", "get_int", "get_str"}

\* C20: get, get_int and get_str are uncounted and unrecorded reads: a call
\* of any of them, for a present or an absent identifier, leaves the counter
\* Cache.store, both history lists and every stored payload unchanged.
C20_ReadsChangeNothing ==
    [][\A c \in Clients :
          (Moved(c) /\ local'[c].op \in ReadOps) =>
              \A k \in ValueKeys : db'[k] = db[k] /\ ttl'[k] = ttl[k]]_vars

C20_Witness ==
    /\ Returned("c1", "get_str")
    /\ ~obs["c1"].absent0
    /\ StoreCounter >= 1
    /\ Len(RedisLRange(db, OutputKey)) >= 1

====
